---- MODULE Spec2Model ----
(***************************************************************************)
(* Model of the SENTINEL self-healing agent (backend/agents/               *)
(* healing_agent.py): the SentinelState of one job, the SentinelAgent      *)
(* methods diagnose, generate_fix, route_after_diagnose and                *)
(* route_after_validate, and the driver run_healing_job.                   *)
(*                                                                         *)
(* Confidences and temperatures are floats in the code; the model keeps    *)
(* them as integers in hundredths (0.3 is 30, 0.92 is 92).                 *)
(*                                                                         *)
(* The specifications share the variables:                                 *)
(*   Spec         one call of run_healing_job, step by step (pc)           *)
(*   FairSpec     Spec, with every awaited step completing                 *)
(*   AgentSpec    a caller that invokes the SentinelAgent methods in any   *)
(*                order on one SentinelState and stores validation results *)
(*   SandboxSpec  one call of test_fix_in_sandbox (backend/core/           *)
(*                sandbox_tester.py), one step per subprocess run          *)
(*   AdapterSpec  two successive calls of diagnose (or generate_fix) whose *)
(*                responses hold the same JSON object in two wrappings     *)
(*   DeliverySpec one failure request handled by github_webhook or         *)
(*                simulate_failure (backend/main.py), with the call of     *)
(*                create_github_pr (backend/core/github_integration.py)    *)
(*                and the sandbox run it makes                             *)
(*   ConcurrentSpec two callers of test_fix_in_sandbox whose invocations   *)
(*                overlap, with the scratch directories of the temp dir    *)
(*   JobStoreSpec the job store of backend/main.py under failure requests  *)
(*                of the five handlers and list_jobs requests in any order *)
(***************************************************************************)
EXTENDS Integers, Sequences, FiniteSets, TLC

VARIABLES
    status,             \* SentinelState.status
    attempt,            \* SentinelState.attempt
    max_attempts,       \* SentinelState.max_attempts
    diagnosis,          \* SentinelState.diagnosis (Optional[Diagnosis])
    fix_result,         \* SentinelState.fix_result (Optional[FixResult])
    validation_result,  \* SentinelState.validation_result
    pr_url,             \* SentinelState.pr_url
    errors,             \* SentinelState.errors (list[str])
    pc,                 \* position in run_healing_job ("agent" under AgentSpec)
    route,              \* value returned by the last route_after_* call
    lastOp,             \* the method that ran last
    calls,              \* history: the set of requests sent to the reasoning service
    valLog,             \* history: the set of validation results stored, by attempt
    statusEdges,        \* history: the changes of status made, as <<from, to>>
    retries,            \* history: times route_after_validate returned generate_fix
    nOps,               \* number of method calls made by the AgentSpec caller
    sbPc,               \* position in test_fix_in_sandbox ("idle": not invoked)
    sbIn,               \* its arguments and the repository at repo_path
    sbFs,               \* the scratch directory, the repository copy, the source
    sbSeg,              \* locals of test_python_fix / test_nodejs_fix
    sbResults,          \* the results dict test_fix_in_sandbox builds
    sbGhost,            \* history: cleanups made, commands run, exception pending
    sbRuns,             \* overlapping invocations of test_fix_in_sandbox
    tmpDirs,            \* the scratch directories that exist in the temp dir
    adPc,               \* position of the two-parse run ("idle": not running)
    adIn,               \* the JSON object and the two wrappings of its response
    adOut,              \* what each parse produced, in order
    ghPc,               \* position in the request handler / create_github_pr
    ghIn,               \* the handler, the repository named, the token
    ghRemote,           \* what create_github_pr has created on GitHub
    pr_info,            \* the handler's pr_info
    job_store,          \* main._job_store
    job_timestamps,     \* main._job_timestamps
    now                 \* datetime.now(), in seconds

agentVars == <<status, attempt, max_attempts, diagnosis, fix_result,
               validation_result, pr_url, errors, pc, route, lastOp, calls,
               valLog, statusEdges, retries, nOps>>

sbRunVars == <<sbPc, sbIn, sbFs, sbSeg, sbResults, sbGhost>>

ccVars == <<sbRuns, tmpDirs>>

sbVars == <<sbRunVars, ccVars>>

adVars == <<adPc, adIn, adOut>>

jsVars == <<job_timestamps, now>>

ghVars == <<ghPc, ghIn, ghRemote, pr_info, job_store, jsVars>>

vars == <<status, attempt, max_attempts, diagnosis, fix_result, validation_result,
          pr_url, errors, pc, route, lastOp, calls, valLog, statusEdges,
          retries, nOps, sbPc, sbIn, sbFs, sbSeg, sbResults, sbGhost,
          sbRuns, tmpDirs,
          adPc, adIn, adOut, ghPc, ghIn, ghRemote, pr_info, job_store,
          job_timestamps, now>>

stateVars == <<status, attempt, max_attempts, diagnosis, fix_result,
               validation_result, pr_url, errors>>

-----------------------------------------------------------------------------
(* Bounds of the model *)

\* Largest max_attempts a caller passes to run_healing_job / SentinelState.
MaxMaxAttempts == 3

\* Number of method calls the AgentSpec caller makes on one state.
MaxOps == 5

-----------------------------------------------------------------------------
(* Program constants, in hundredths *)

\* route_after_diagnose: state.diagnosis.confidence > 0.3
ConfidenceThreshold == 30

\* generate_fix: temperature = min(0.0 + state.attempt * 0.15, 0.4)
TemperatureStep == 15
TemperatureCeiling == 40

\* Diagnosis.confidence: Field(ge=0.0, le=1.0)
ConfidenceMin == 0
ConfidenceMax == 100

-----------------------------------------------------------------------------
(* Optional values *)

None == [some |-> FALSE]
Some(x) == [some |-> TRUE, val |-> x]
IsSome(o) == o.some

Min(a, b) == IF a <= b THEN a ELSE b

-----------------------------------------------------------------------------
(* Response texts of the reasoning service.  A text is a sequence of       *)
(* tokens: a fence (three backquotes), a word, a newline, or the text of   *)
(* one JSON object.  A JSON object is kept as the set of its keys and the  *)
(* values the schemas read.                                                *)

Fence == [t |-> "fence"]
NL == [t |-> "nl"]
Word(w) == [t |-> "word", w |-> w]

DiagnosisKeys == {"failure_type", "root_cause", "affected_files",
                  "error_summary", "confidence", "suggested_approach"}
FixResultKeys == {"patches", "explanation", "test_commands", "confidence"}

DiagnosisJson(ft, c) ==
    [t |-> "obj", keys |-> DiagnosisKeys, failure_type |-> ft,
     confidence |-> c, patches |-> 0]
FixJson(n, c) ==
    [t |-> "obj", keys |-> FixResultKeys, failure_type |-> "",
     confidence |-> c, patches |-> n]
\* {"message": "unknown prompt"}: valid JSON that fits neither schema
OtherJson ==
    [t |-> "obj", keys |-> {"message"}, failure_type |-> "",
     confidence |-> 0, patches |-> 0]

Bare(obj) == <<obj>>
Fenced(tag, obj) ==
    IF tag = "" THEN <<Fence, NL, obj, NL, Fence>>
                ELSE <<Fence, Word(tag), NL, obj, NL, Fence>>

\* A response of messages.create: the call raises, or returns a text.
Raises == [raises |-> TRUE, text |-> <<>>]
Returns(text) == [raises |-> FALSE, text |-> text]

-----------------------------------------------------------------------------
(* The response adapter: strip, unwrap the fence, json.loads, schema *)

IsSpace(tok) == tok.t = "nl"

RECURSIVE LStrip(_)
LStrip(s) == IF s # <<>> /\ IsSpace(Head(s)) THEN LStrip(Tail(s)) ELSE s

RECURSIVE RStrip(_)
RStrip(s) ==
    IF s # <<>> /\ IsSpace(s[Len(s)]) THEN RStrip(SubSeq(s, 1, Len(s) - 1)) ELSE s

\* str.strip()
Strip(s) == RStrip(LStrip(s))

\* raw.startswith("```")
StartsWithFence(s) == s # <<>> /\ Head(s).t = "fence"

\* index of the first fence of s at or after position i, or Len(s)+1
RECURSIVE NextFence(_, _)
NextFence(s, i) ==
    IF i > Len(s) THEN Len(s) + 1
    ELSE IF s[i].t = "fence" THEN i
    ELSE NextFence(s, i + 1)

\* raw.split("```")[1] for a raw that starts with a fence: the text between
\* the first fence and the next one (or the end of the text)
SplitFenceSecond(s) == SubSeq(s, 2, NextFence(s, 2) - 1)

\* raw.startswith("json"): the first token is a word beginning with json
StartsWithJson(s) ==
    s # <<>> /\ Head(s).t = "word" /\ Head(s).w \in {"json", "jsonc"}

\* raw[4:] for a raw that starts with json
DropJson(s) ==
    IF Head(s).w = "json" THEN Tail(s) ELSE <<Word("c")>> \o Tail(s)

\* mutant: the fence is stripped only by the first parse made on a state
Unwrap_FirstParseOnly(text) ==
    LET raw == Strip(text) IN
    IF StartsWithFence(raw) /\ lastOp = "none"
    THEN LET inner == SplitFenceSecond(raw) IN
         IF StartsWithJson(inner) THEN DropJson(inner) ELSE inner
    ELSE raw

\* healing_agent.py 123-127 and 182-186
Unwrap(text) ==
    LET raw == Strip(text) IN
    IF StartsWithFence(raw)
    THEN LET inner == SplitFenceSecond(raw) IN
         IF StartsWithJson(inner) THEN DropJson(inner) ELSE inner
    ELSE raw

\* json.loads(raw): surrounding whitespace is skipped; exactly one JSON
\* value must remain.  None models the JSONDecodeError.
JsonLoads(raw) ==
    LET body == Strip(raw) IN
    IF Len(body) = 1 /\ body[1].t = "obj" THEN Some(body[1]) ELSE None

\* Diagnosis(**obj): all fields required, confidence within [0, 1]
DiagnosisConfidenceOk(c) == ConfidenceMin <= c /\ c <= ConfidenceMax

ParseDiagnosis(obj) ==
    IF DiagnosisKeys \subseteq obj.keys /\ DiagnosisConfidenceOk(obj.confidence)
    THEN Some([failure_type |-> obj.failure_type, confidence |-> obj.confidence])
    ELSE None

\* FixResult(**obj): all fields required, confidence a float
ParseFixResult(obj) ==
    IF FixResultKeys \subseteq obj.keys
    THEN Some([patches |-> obj.patches, confidence |-> obj.confidence])
    ELSE None

\* The outcome of the try block of diagnose: a Diagnosis, or an exception
DiagnoseOutcome(resp) ==
    IF resp.raises THEN None
    ELSE LET j == JsonLoads(Unwrap(resp.text)) IN
         IF IsSome(j) THEN ParseDiagnosis(j.val) ELSE None

\* The outcome of the try block of generate_fix
GenerateOutcome(resp) ==
    IF resp.raises THEN None
    ELSE LET j == JsonLoads(Unwrap(resp.text)) IN
         IF IsSome(j) THEN ParseFixResult(j.val) ELSE None

-----------------------------------------------------------------------------
(* Inputs *)

\* max_attempts values a caller may pass (the parameter is a plain int)
MaxAttemptsInputs == (0 - 1) .. MaxMaxAttempts

DiagnosisConfidences == {0 - 5, 20, 30, 31, 92, 120}

DiagResponses ==
    {Raises, Returns(<<Word("sorry")>>), Returns(Bare(OtherJson))}
    \cup {Returns(Bare(DiagnosisJson("dep_conflict", c))) :
            c \in DiagnosisConfidences}
    \cup {Returns(Bare(DiagnosisJson("syntax_error", 92)))}
    \cup {Returns(Fenced(tag, DiagnosisJson("dep_conflict", 92))) :
            tag \in {"", "json", "jsonc", "python"}}
    \cup {Returns(Bare([DiagnosisJson("dep_conflict", 92)
                            EXCEPT !.keys = DiagnosisKeys \ {"confidence"}]))}

FixResponses ==
    {Raises, Returns(<<Word("sorry")>>), Returns(Bare(OtherJson))}
    \cup {Returns(Bare(FixJson(n, 88))) : n \in {0, 1}}
    \cup {Returns(Bare(FixJson(1, 150)))}
    \cup {Returns(Fenced(tag, FixJson(1, 88))) : tag \in {"", "json", "python"}}

\* The responses the AgentSpec caller's service gives: a subset that keeps
\* every outcome class (exception, rejected, stored at/above the threshold)
AgentDiagResponses ==
    {Raises,
     Returns(Bare(DiagnosisJson("dep_conflict", 30))),
     Returns(Bare(DiagnosisJson("dep_conflict", 31))),
     Returns(Fenced("json", DiagnosisJson("dep_conflict", 92)))}

AgentFixResponses ==
    {Raises, Returns(Bare(OtherJson)), Returns(Fenced("json", FixJson(1, 88)))}

\* ValidationResult values a caller may store (passed; output, duration and
\* error are not read by the agent's routing)
ValidationInputs == {[passed |-> TRUE], [passed |-> FALSE]}

-----------------------------------------------------------------------------
(* Entries of SentinelState.errors *)

\* f"diagnose: {e}"
DiagnoseError == [src |-> "diagnose", attempt |-> 0 - 1]
\* "generate_fix: no diagnosis"
NoDiagnosisError == [src |-> "generate_fix: no diagnosis", attempt |-> 0 - 1]
\* f"generate_fix attempt {state.attempt}: {e}"
GenerateError(a) == [src |-> "generate_fix attempt", attempt |-> a]

-----------------------------------------------------------------------------
(* SentinelAgent methods *)

SetStatus(s) ==
    /\ status' = s
    /\ statusEdges' = IF s = status THEN statusEdges
                      ELSE statusEdges \cup {<<status, s>>}

\* client.messages.create(model=..., max_tokens=..., messages=[...]): the
\* call is given no timeout argument, by diagnose and by generate_fix alike
RequestTimeout == None

\* mutant: a failed diagnose restarts the error log
Diagnose_RestartsLog(resp) ==
    LET out == DiagnoseOutcome(resp) IN
    /\ SetStatus("diagnosing")
    /\ calls' = calls \cup {[svc |-> "diagnose", attempt |-> attempt,
                               hadDiagnosis |-> IsSome(diagnosis),
                               stored |-> IsSome(out),
                               temperature |-> None,
                               timeout |-> RequestTimeout,
                               previous |-> FALSE]}
    /\ IF IsSome(out)
       THEN diagnosis' = out /\ UNCHANGED errors
       ELSE errors' = <<DiagnoseError>> /\ UNCHANGED diagnosis
    /\ UNCHANGED <<attempt, max_attempts, fix_result, validation_result, pr_url>>

\* SentinelAgent.diagnose
Diagnose(resp) ==
    LET out == DiagnoseOutcome(resp) IN
    /\ SetStatus("diagnosing")
    /\ calls' = calls \cup {[svc |-> "diagnose", attempt |-> attempt,
                               hadDiagnosis |-> IsSome(diagnosis),
                               stored |-> IsSome(out),
                               temperature |-> None,
                               timeout |-> RequestTimeout,
                               previous |-> FALSE]}
    /\ IF IsSome(out)
       THEN diagnosis' = out /\ UNCHANGED errors
       ELSE errors' = Append(errors, DiagnoseError) /\ UNCHANGED diagnosis
    /\ UNCHANGED <<attempt, max_attempts, fix_result, validation_result, pr_url>>

\* mutant: the guard is missing
HasDiagnosis_Unchecked(d) == TRUE

\* generate_fix: "if not state.diagnosis"
HasDiagnosis(d) == IsSome(d)

\* generate_fix: temperature = min(0.0 + state.attempt * 0.15, 0.4)
Temperature(a) == Min(0 + a * TemperatureStep, TemperatureCeiling)

\* the temperature argument of the request: the local variable of line 150
\* is not among the arguments of client.messages.create (177-181)
SentTemperature(a) == None

\* mutant: the excerpt is added whenever a validation result is stored
IncludesPrevious_AtAttemptZero(a, v) == IsSome(v)

\* generate_fix: the prompt carries "Previous attempt failed: ..." 
IncludesPrevious(a, v) == a > 0 /\ IsSome(v)

\* SentinelAgent.generate_fix
GenerateFix(resp) ==
    /\ SetStatus("generating")
    /\ IF ~HasDiagnosis(diagnosis)
       THEN /\ errors' = Append(errors, NoDiagnosisError)
            /\ UNCHANGED <<calls, fix_result>>
       ELSE LET out == GenerateOutcome(resp) IN
            /\ calls' = calls \cup
                   {[svc |-> "generate_fix", attempt |-> attempt,
                    hadDiagnosis |-> IsSome(diagnosis),
                    stored |-> IsSome(out),
                    temperature |-> SentTemperature(attempt),
                    timeout |-> RequestTimeout,
                    previous |-> IncludesPrevious(attempt, validation_result)]}
            /\ IF IsSome(out)
               THEN fix_result' = out /\ UNCHANGED errors
               ELSE /\ errors' = Append(errors, GenerateError(attempt))
                    /\ UNCHANGED fix_result
    /\ UNCHANGED <<attempt, max_attempts, diagnosis, validation_result, pr_url>>

\* mutant: every call of route_after_validate counts an attempt
AttemptAfterValidate_Always(v, a, m) == a + 1

\* mutant: a failed validation is always retried
MayRetry_Always(a, m) == TRUE

\* mutant: the boundary itself routes to generate_fix
RouteAfterDiagnose_AtLeast(d) ==
    IF IsSome(d) /\ d.val.confidence >= ConfidenceThreshold
    THEN "generate_fix" ELSE "escalate"

\* mutant: any diagnosis routes to generate_fix, whatever its confidence
RouteAfterDiagnose_AnyDiagnosis(d) ==
    IF IsSome(d) THEN "generate_fix" ELSE "escalate"

\* SentinelAgent.route_after_diagnose
RouteAfterDiagnose(d) ==
    IF IsSome(d) /\ d.val.confidence > ConfidenceThreshold
    THEN "generate_fix" ELSE "escalate"

\* route_after_validate: "state.validation_result and state.validation_result.passed"
ValidationPassed(v) == IsSome(v) /\ v.val.passed

\* mutant: off by one, the last attempt index is retried too
MayRetry_UpToMax(a, m) == a < m

\* mutant: the last attempt index is retried once more
MayRetry_Inclusive(a, m) == a <= m - 1

\* route_after_validate: "state.attempt < state.max_attempts - 1"
MayRetry(a, m) == a < m - 1

\* mutant: the retry budget is looked at before the validation outcome
RouteAfterValidate_BudgetFirst(v, a, m) ==
    IF ~MayRetry(a, m) THEN "escalate"
    ELSE IF ValidationPassed(v) THEN "open_pr"
    ELSE "generate_fix"

\* SentinelAgent.route_after_validate: the value returned
RouteAfterValidate(v, a, m) ==
    IF ValidationPassed(v) THEN "open_pr"
    ELSE IF MayRetry(a, m) THEN "generate_fix"
    ELSE "escalate"

\* mutant: the "state.attempt += 1" is missing
AttemptAfterValidate_NoIncrement(v, a, m) == a

\* SentinelAgent.route_after_validate: state.attempt after the call
AttemptAfterValidate(v, a, m) ==
    IF ~ValidationPassed(v) /\ MayRetry(a, m) THEN a + 1 ELSE a

-----------------------------------------------------------------------------
(* test_fix_in_sandbox: data *)

\* tech_stack values a caller passes; the code recognises the first three
TechStacks == {"python", "nodejs", "fullstack", "backend"}

\* failure_type values; "test_failure" stands for those with no extra check
SbFailureTypes == {"syntax_error", "import_error", "type_error", "dep_conflict",
                   "test_failure"}

\* the repository at repo_path: its backend project (absent, without or with
\* backend/requirements.txt) and whether it has a frontend directory
Repos == [backend : {"absent", "plain", "requirements"}, frontend : BOOLEAN]

\* how a subprocess.run ends: exit status 0, another exit status,
\* TimeoutExpired, or another exception (the program cannot be started)
CmdOutcomes == {"zero", "nonzero", "timeout", "oserror"}

\* test_python_fix: test_commands
PyCommands(ft) ==
    <<"import main", "from agents import healing_agent">> \o
    (CASE ft = "syntax_error" -> <<"import main; print">>
       [] ft = "import_error" -> <<"import main">>
       [] ft = "type_error" -> <<"from core import config">>
       [] ft = "dep_conflict" -> <<"import github; import anthropic">>
       [] OTHER -> <<>>)

\* test_nodejs_fix: test_commands
NodeCommands == <<"node --check src/app/page.js">>

\* the commands that import from backend/ cannot exit 0 without it
NeedsBackend(cmd) == cmd # "import github; import anthropic"

PyOutcomes(cmd, repo) ==
    IF NeedsBackend(cmd) /\ repo.backend = "absent"
    THEN CmdOutcomes \ {"zero"} ELSE CmdOutcomes

\* overlapping invocations: two callers (two jobs, or two retries of one)
Invocations == {1, 2}

\* job_id[:8] of the callers; both may pass the same one
JobPrefixes == {"p", "q"}

\* the random part mkdtemp adds to the prefix
Suffixes == {"a", "b", "c"}

\* the number of times one caller invokes test_fix_in_sandbox (retries)
MaxRuns == 2

NoRun == [pc |-> "idle", prefix |-> "p", dir |-> None, runs |-> 0]

\* the state in which no overlapping invocations are made
CcIdle ==
    /\ sbRuns = [i \in Invocations |-> NoRun]
    /\ tmpDirs = {}

\* the state in which test_fix_in_sandbox has not been called
NoSegment == [all_passed |-> TRUE, output |-> <<>>, idx |-> 1]
NoResults == [tested |-> FALSE, passed |-> FALSE, tests |-> <<>>,
              error |-> "", built |-> FALSE]
NoGhost == [cleanups |-> 0, ran |-> 0, allZero |-> TRUE, raised |-> FALSE,
            setup |-> "none", checking |-> FALSE]
CleanFs == [scratch |-> FALSE, copy |-> FALSE, source |-> "intact"]

SbIdle ==
    /\ sbPc = "idle"
    /\ sbIn = [tech_stack |-> "python", failure_type |-> "test_failure",
               repo |-> [backend |-> "absent", frontend |-> FALSE]]
    /\ sbFs = CleanFs
    /\ sbSeg = NoSegment
    /\ sbResults = NoResults
    /\ sbGhost = NoGhost
    /\ CcIdle

-----------------------------------------------------------------------------
(* The response adapter run twice: data *)

\* how the response text wraps the JSON object: not at all, in a fence
\* without a tag, or in a fence with this language tag
Wraps == {"bare", "fence", "json", "jsonc", "python"}

Wrap(w, obj) ==
    IF w = "bare" THEN Bare(obj)
    ELSE Fenced(IF w = "fence" THEN "" ELSE w, obj)

\* the JSON objects the service answers with, for each of the two methods
AdObjects(kind) ==
    IF kind = "diagnosis"
    THEN {DiagnosisJson("dep_conflict", 31), DiagnosisJson("syntax_error", 92),
          DiagnosisJson("dep_conflict", 120), OtherJson}
    ELSE {FixJson(1, 88), FixJson(0, 31), OtherJson}

\* the state in which the two-parse run is not made
AdIdle ==
    /\ adPc = "idle"
    /\ adIn = [kind |-> "diagnosis", obj |-> OtherJson,
               wraps |-> <<"bare", "bare">>]
    /\ adOut = <<>>

-----------------------------------------------------------------------------
(* create_github_pr and its request handlers: data *)

NoRemote == [branch |-> FALSE, file |-> FALSE, pr |-> FALSE]

\* the handlers that call create_github_pr
GhHandlers == {"github_webhook", "simulate_failure"}

\* failure_type values of the request body used for the handler runs
DeliveryFailureTypes == {"syntax_error", "unknown"}

\* how a call of the GitHub API ends: it succeeds, it raises GithubException
\* saying the object already exists, it raises another GithubException, or
\* it raises another exception (network)
GhApiOutcomes == {"ok", "exists", "gh_error", "error"}

\* create_mock_pr(...): {"status": "simulated", ...}
MockPr == Some([status |-> "simulated"])

\* the state in which no request is being handled
\* str(uuid.uuid4())[:8]: the job ids a handler may draw
JobIds == {"id1", "id2"}

\* the handlers that store a job, by the provider they record
Providers == {"github", "gitlab", "jenkins", "circleci", "test"}

\* the seconds that may pass between two requests
ClockSteps == {5, 15}

\* the last second of the clock
MaxNow == 40

\* elapsed > 15
AutoResolveSeconds == 15

\* the job store before the first request
JsIdle ==
    /\ job_timestamps = [i \in {} |-> 0]
    /\ now = 0

GhIdle ==
    /\ ghPc = "idle"
    /\ ghIn = [handler |-> "simulate_failure", own_repo |-> FALSE,
               token |-> FALSE]
    /\ ghRemote = NoRemote
    /\ pr_info = None
    /\ job_store = {}
    /\ JsIdle

-----------------------------------------------------------------------------
(* run_healing_job, one step per await / branch *)

\* SentinelState(..., max_attempts=max_attempts): the defaults of the model
NewState(m) ==
    /\ status = "ingesting"
    /\ attempt = 0
    /\ max_attempts = m
    /\ diagnosis = None
    /\ fix_result = None
    /\ validation_result = None
    /\ pr_url = None
    /\ errors = <<>>

NoHistory ==
    /\ route = "none"
    /\ lastOp = "none"
    /\ calls = {}
    /\ valLog = {}
    /\ statusEdges = {}
    /\ retries = 0
    /\ nOps = 0

Init ==
    /\ \E m \in MaxAttemptsInputs : NewState(m)
    /\ NoHistory
    /\ SbIdle
    /\ AdIdle
    /\ GhIdle
    /\ pc = "diagnose"

\* a method whose exception leaves it: the status is set, the request was
\* sent, and nothing else of the state is written
AbortedCall(svc, st) ==
    /\ SetStatus(st)
    /\ calls' = calls \cup {[svc |-> svc, attempt |-> attempt,
                              hadDiagnosis |-> IsSome(diagnosis),
                              stored |-> FALSE,
                              temperature |-> IF svc = "diagnose" THEN None
                                              ELSE SentTemperature(attempt),
                              timeout |-> RequestTimeout,
                              previous |-> svc # "diagnose" /\
                                  IncludesPrevious(attempt, validation_result)]}
    /\ UNCHANGED <<attempt, max_attempts, diagnosis, fix_result,
                   validation_result, pr_url, errors>>

\* mutant: only the parsing errors are caught, a failed call is not
DiagnoseEscapes_CallErrors(resp) == resp.raises

\* diagnose: "except Exception as e" covers the call and the parsing, so no
\* outcome of the request leaves the method as an exception
DiagnoseEscapes(resp) == FALSE

\* mutant: only the parsing errors are caught, a failed call is not
GenerateEscapes_CallErrors(resp) == resp.raises

\* generate_fix: "except Exception as e" covers the call and the parsing
GenerateEscapes(resp) == FALSE

\* state = await agent.diagnose(state)
JobDiagnose ==
    /\ pc = "diagnose"
    /\ UNCHANGED <<sbVars, adVars, ghVars>>
    /\ \E resp \in DiagResponses :
          IF DiagnoseEscapes(resp)
          THEN AbortedCall("diagnose", "diagnosing") /\ pc' = "raised"
          ELSE Diagnose(resp) /\ pc' = "route"
    /\ lastOp' = "diagnose"
    /\ UNCHANGED <<route, valLog, retries, nOps>>

\* route = agent.route_after_diagnose(state); if route == "generate_fix"
JobRoute ==
    /\ pc = "route"
    /\ UNCHANGED <<sbVars, adVars, ghVars>>
    /\ route' = RouteAfterDiagnose(diagnosis)
    /\ pc' = IF route' = "generate_fix" THEN "generate" ELSE "escalate"
    /\ lastOp' = "route_after_diagnose"
    /\ UNCHANGED <<stateVars, calls, valLog, statusEdges, retries, nOps>>

\* state = await agent.generate_fix(state)
JobGenerateFix ==
    /\ pc = "generate"
    /\ UNCHANGED <<sbVars, adVars, ghVars>>
    /\ \E resp \in FixResponses :
          IF GenerateEscapes(resp)
          THEN AbortedCall("generate_fix", "generating") /\ pc' = "raised"
          ELSE GenerateFix(resp) /\ pc' = "finish"
    /\ lastOp' = "generate_fix"
    /\ UNCHANGED <<route, valLog, retries, nOps>>

\* the ValidationResult run_healing_job stores ("simulated")
SimulatedValidation == [passed |-> TRUE]

\* mutant: the status is left as generate_fix set it
JobFinish_StatusNotSet ==
    /\ pc = "finish"
    /\ UNCHANGED <<sbVars, adVars, ghVars>>
    /\ validation_result' = Some(SimulatedValidation)
    /\ valLog' = valLog \cup {[attempt |-> attempt,
                                 passed |-> SimulatedValidation.passed]}
    /\ pr_url' = Some("auto-fix")
    /\ pc' = "returned"
    /\ lastOp' = "finish"
    /\ UNCHANGED <<status, statusEdges, attempt, max_attempts, diagnosis,
                   fix_result, errors, route, calls, retries, nOps>>

\* mutant: the validation result is not stored
JobFinish_NoValidation ==
    /\ pc = "finish"
    /\ UNCHANGED <<sbVars, adVars, ghVars>>
    /\ SetStatus("done")
    /\ pr_url' = Some("auto-fix")
    /\ pc' = "returned"
    /\ lastOp' = "finish"
    /\ UNCHANGED <<attempt, max_attempts, diagnosis, fix_result, errors,
                   validation_result, valLog, route, calls, retries, nOps>>

\* state.validation_result = ValidationResult(passed=True, ...);
\* state.status = DONE; state.pr_url = ...; return state
JobFinish ==
    /\ pc = "finish"
    /\ UNCHANGED <<sbVars, adVars, ghVars>>
    /\ validation_result' = Some(SimulatedValidation)
    /\ valLog' = valLog \cup {[attempt |-> attempt,
                                 passed |-> SimulatedValidation.passed]}
    /\ SetStatus("done")
    /\ pr_url' = Some("auto-fix")
    /\ pc' = "returned"
    /\ lastOp' = "finish"
    /\ UNCHANGED <<attempt, max_attempts, diagnosis, fix_result, errors,
                   route, calls, retries, nOps>>

\* else: state.status = FAILED; return state
JobEscalate ==
    /\ pc = "escalate"
    /\ UNCHANGED <<sbVars, adVars, ghVars>>
    /\ SetStatus("failed")
    /\ pc' = "returned"
    /\ lastOp' = "escalate"
    /\ UNCHANGED <<attempt, max_attempts, diagnosis, fix_result,
                   validation_result, pr_url, errors, route, calls, valLog,
                   retries, nOps>>

Next ==
    \/ JobDiagnose
    \/ JobRoute
    \/ JobGenerateFix
    \/ JobFinish
    \/ JobEscalate

Spec == Init /\ [][Next]_vars

\* the steps of run_healing_job run one after the other in one coroutine:
\* a step that can be taken is taken
FairSpec == Spec /\ WF_vars(Next)

-----------------------------------------------------------------------------
(* A caller of the SentinelAgent methods *)

AgentInit ==
    /\ \E m \in MaxAttemptsInputs : NewState(m)
    /\ NoHistory
    /\ SbIdle
    /\ AdIdle
    /\ GhIdle
    /\ pc = "agent"

CallDiagnose ==
    /\ pc = "agent" /\ nOps < MaxOps
    /\ UNCHANGED <<sbVars, adVars, ghVars>>
    /\ \E resp \in AgentDiagResponses : Diagnose(resp)
    /\ lastOp' = "diagnose"
    /\ nOps' = nOps + 1
    /\ UNCHANGED <<pc, route, valLog, retries>>

CallGenerateFix ==
    /\ pc = "agent" /\ nOps < MaxOps
    /\ UNCHANGED <<sbVars, adVars, ghVars>>
    /\ \E resp \in AgentFixResponses : GenerateFix(resp)
    /\ lastOp' = "generate_fix"
    /\ nOps' = nOps + 1
    /\ UNCHANGED <<pc, route, valLog, retries>>

\* the caller assigns state.validation_result
StoreValidation ==
    /\ pc = "agent" /\ nOps < MaxOps
    /\ UNCHANGED <<sbVars, adVars, ghVars>>
    /\ \E v \in ValidationInputs :
          /\ validation_result' = Some(v)
          /\ valLog' = valLog \cup {[attempt |-> attempt, passed |-> v.passed]}
    /\ lastOp' = "validate"
    /\ nOps' = nOps + 1
    /\ UNCHANGED <<status, attempt, max_attempts, diagnosis, fix_result, pr_url,
                   errors, pc, route, calls, statusEdges, retries>>

CallRouteAfterDiagnose ==
    /\ pc = "agent" /\ nOps < MaxOps
    /\ UNCHANGED <<sbVars, adVars, ghVars>>
    /\ route' = RouteAfterDiagnose(diagnosis)
    /\ lastOp' = "route_after_diagnose"
    /\ nOps' = nOps + 1
    /\ UNCHANGED <<stateVars, pc, calls, valLog, statusEdges, retries>>

CallRouteAfterValidate ==
    /\ pc = "agent" /\ nOps < MaxOps
    /\ UNCHANGED <<sbVars, adVars, ghVars>>
    /\ route' = RouteAfterValidate(validation_result, attempt, max_attempts)
    /\ attempt' = AttemptAfterValidate(validation_result, attempt, max_attempts)
    /\ retries' = IF route' = "generate_fix" THEN retries + 1 ELSE retries
    /\ lastOp' = "route_after_validate"
    /\ nOps' = nOps + 1
    /\ UNCHANGED <<status, max_attempts, diagnosis, fix_result, validation_result,
                   pr_url, errors, pc, calls, valLog, statusEdges>>

AgentNext ==
    \/ CallDiagnose
    \/ CallGenerateFix
    \/ StoreValidation
    \/ CallRouteAfterDiagnose
    \/ CallRouteAfterValidate

AgentSpec == AgentInit /\ [][AgentNext]_vars

-----------------------------------------------------------------------------
(* test_fix_in_sandbox, one step per subprocess run *)

\* SentinelState.max_attempts default
DefaultMaxAttempts == 3

SbInit ==
    /\ NewState(DefaultMaxAttempts)
    /\ NoHistory
    /\ pc = "sandbox"
    /\ sbPc = "setup"
    /\ sbIn \in [tech_stack : TechStacks, failure_type : SbFailureTypes,
                 repo : Repos]
    /\ sbFs = CleanFs
    /\ sbSeg = NoSegment
    /\ sbResults = NoResults
    /\ sbGhost = NoGhost
    /\ CcIdle
    /\ AdIdle
    /\ GhIdle

\* setup_sandbox_environment: mkdtemp raises, copytree raises, or both succeed
SetupOutcomes == {"ok", "mkdtemp_fails", "copytree_fails"}

\* mutant: the path is returned although copytree failed
SetupReturns_AfterMkdtemp(o) ==
    IF o # "mkdtemp_fails" THEN Some("repo") ELSE None

\* setup_sandbox_environment: "return temp_repo" / "except ...: return None"
SetupReturns(o) == IF o = "ok" THEN Some("repo") ELSE None

\* the directories setup_sandbox_environment leaves behind; a copytree that
\* fails may have copied a part (partial)
SetupFs(fs, o, partial) ==
    CASE o = "mkdtemp_fails" -> fs
      [] o = "copytree_fails" -> [fs EXCEPT !.scratch = TRUE, !.copy = partial]
      [] OTHER -> [fs EXCEPT !.scratch = TRUE, !.copy = TRUE]

\* test_fix_in_sandbox: the segment that runs first, and after Python
FirstSegment(ts) ==
    IF ts \in {"python", "fullstack"} THEN "py_start"
    ELSE IF ts \in {"nodejs", "fullstack"} THEN "node_start"
    ELSE "aggregate"
AfterPython(ts) ==
    IF ts \in {"nodejs", "fullstack"} THEN "node_start" ELSE "aggregate"

\* sandbox_path = setup_sandbox_environment(...); if not sandbox_path: return
SbSetup ==
    /\ sbPc = "setup"
    /\ \E o \in SetupOutcomes, partial \in BOOLEAN :
          /\ sbFs' = SetupFs(sbFs, o, partial)
          /\ sbGhost' = [sbGhost EXCEPT !.setup = o,
                                        !.checking = IsSome(SetupReturns(o))]
          /\ IF IsSome(SetupReturns(o))
             THEN /\ sbResults' = [tested |-> TRUE, passed |-> FALSE,
                                   tests |-> <<>>, error |-> "", built |-> TRUE]
                  /\ sbPc' = FirstSegment(sbIn.tech_stack)
             ELSE /\ sbResults' = [tested |-> FALSE, passed |-> FALSE,
                                   tests |-> <<>>,
                                   error |-> "Failed to create sandbox",
                                   built |-> TRUE]
                  /\ sbPc' = "returned"
    /\ UNCHANGED <<sbIn, sbSeg, ccVars, agentVars, adVars, ghVars>>

\* mutant: the commands run in the repository itself
CommandCwd_RepoPath == "source"

\* subprocess.run(..., cwd=sandbox_path) / cwd=frontend_dir: inside the copy
CommandCwd == "copy"

\* a command leaves files behind in its working directory (__pycache__,
\* node_modules); the copy is already marked as present
RunWrites(fs, cwd) ==
    IF cwd = "source" THEN [fs EXCEPT !.source = "modified"] ELSE fs

\* history: one more subprocess has run, with this outcome
RunGhost(g, o) ==
    [g EXCEPT !.ran = @ + 1, !.allZero = @ /\ o = "zero"]

\* an install step that raises (TimeoutExpired, OSError) is not inside the
\* per-command try: the function's outer "except Exception" returns
InstallRaises(o) == o \in {"timeout", "oserror"}

\* SandboxTestResult(passed=False, errors=str(e), output="Test execution failed")
ExceptionResult(fw) ==
    [framework |-> fw, passed |-> FALSE, output |-> <<"Test execution failed">>,
     errors |-> "exception"]

\* SandboxTestResult(passed=all_passed, output=..., errors=...)
SegmentResult(fw, seg) ==
    [framework |-> fw, passed |-> seg.all_passed, output |-> seg.output,
     errors |-> IF seg.all_passed THEN "" ELSE "Some tests failed"]

\* the entry a check appends to all_output
CheckMarker(o) ==
    CASE o = "zero" -> "ok"
      [] o = "nonzero" -> "failed"
      [] o = "timeout" -> "timeout"
      [] OTHER -> "error"

\* the checks that print to stdout ("if result.stdout: all_output.append")
HasStdout(cmd) ==
    cmd \in {"import main; print", "import github; import anthropic"}

\* mutant: a timeout is not counted as a failure
CheckPassed_TimeoutIgnored(all_passed, o) ==
    all_passed /\ o \in {"zero", "timeout"}

\* all_passed after one check of the loop
CheckPassed(all_passed, o) == all_passed /\ o = "zero"

\* one iteration of "for cmd in test_commands"
CheckStep(seg, cmd, o, stdout) ==
    [all_passed |-> CheckPassed(seg.all_passed, o),
     output |-> seg.output \o <<CheckMarker(o)>> \o
                (IF stdout /\ o = "zero" /\ HasStdout(cmd)
                 THEN <<"stdout">> ELSE <<>>),
     idx |-> seg.idx + 1]

AppendTest(res, t) == [res EXCEPT !.tests = Append(@, t)]

\* test_python_fix, up to the loop: pip install when requirements.txt exists
SbPyStart ==
    /\ sbPc = "py_start"
    /\ IF sbIn.repo.backend = "requirements"
       THEN \E o \in CmdOutcomes :
               /\ sbGhost' = RunGhost(sbGhost, o)
               /\ IF InstallRaises(o)
                  THEN /\ sbResults' = AppendTest(sbResults,
                                                  ExceptionResult("python"))
                       /\ sbPc' = AfterPython(sbIn.tech_stack)
                  ELSE /\ sbPc' = "py_check"
                       /\ UNCHANGED sbResults
               /\ sbFs' = RunWrites(sbFs, CommandCwd)
       ELSE /\ sbPc' = "py_check"
            /\ UNCHANGED <<sbGhost, sbResults, sbFs>>
    /\ sbSeg' = NoSegment
    /\ UNCHANGED <<sbIn, ccVars, agentVars, adVars, ghVars>>

\* test_python_fix: one check of the loop
SbPyCheck ==
    /\ sbPc = "py_check"
    /\ LET cmds == PyCommands(sbIn.failure_type)
           cmd == cmds[sbSeg.idx] IN
       \E o \in PyOutcomes(cmd, sbIn.repo) :
          /\ sbSeg' = CheckStep(sbSeg, cmd, o, TRUE)
          /\ sbGhost' = RunGhost(sbGhost, o)
          /\ sbPc' = IF sbSeg.idx >= Len(cmds) THEN "py_return" ELSE "py_check"
    /\ sbFs' = RunWrites(sbFs, CommandCwd)
    /\ UNCHANGED <<sbIn, sbResults, ccVars, agentVars, adVars, ghVars>>

\* test_python_fix returns; results["tests"].append(...)
SbPyReturn ==
    /\ sbPc = "py_return"
    /\ sbResults' = AppendTest(sbResults, SegmentResult("python", sbSeg))
    /\ sbPc' = AfterPython(sbIn.tech_stack)
    /\ UNCHANGED <<sbIn, sbFs, sbSeg, sbGhost, ccVars, agentVars, adVars, ghVars>>

\* mutant: a missing frontend directory fails the segment
SkippedResult_Failed ==
    [framework |-> "nodejs", passed |-> FALSE, output |-> <<"skipped">>,
     errors |-> "Some tests failed"]

\* SandboxTestResult(passed=True, ...) of test_nodejs_fix without a frontend
SkippedResult ==
    [framework |-> "nodejs", passed |-> TRUE, output |-> <<"skipped">>,
     errors |-> ""]

\* test_nodejs_fix, up to the loop: npm install when frontend/ exists, the
\* early return when it does not
SbNodeStart ==
    /\ sbPc = "node_start"
    /\ IF sbIn.repo.frontend
       THEN \E o \in CmdOutcomes :
               /\ sbGhost' = RunGhost(sbGhost, o)
               /\ IF InstallRaises(o)
                  THEN /\ sbResults' = AppendTest(sbResults,
                                                  ExceptionResult("nodejs"))
                       /\ sbPc' = "aggregate"
                  ELSE /\ sbPc' = "node_check"
                       /\ UNCHANGED sbResults
               /\ sbFs' = RunWrites(sbFs, CommandCwd)
       ELSE /\ sbResults' = AppendTest(sbResults, SkippedResult)
            /\ sbPc' = "aggregate"
            /\ UNCHANGED <<sbGhost, sbFs>>
    /\ sbSeg' = NoSegment
    /\ UNCHANGED <<sbIn, ccVars, agentVars, adVars, ghVars>>

\* test_nodejs_fix: one check of the loop
SbNodeCheck ==
    /\ sbPc = "node_check"
    /\ LET cmd == NodeCommands[sbSeg.idx] IN
       \E o \in CmdOutcomes :
          /\ sbSeg' = CheckStep(sbSeg, cmd, o, FALSE)
          /\ sbGhost' = RunGhost(sbGhost, o)
          /\ sbPc' = IF sbSeg.idx >= Len(NodeCommands)
                     THEN "node_return" ELSE "node_check"
    /\ sbFs' = RunWrites(sbFs, CommandCwd)
    /\ UNCHANGED <<sbIn, sbResults, ccVars, agentVars, adVars, ghVars>>

\* test_nodejs_fix returns; results["tests"].append(...)
SbNodeReturn ==
    /\ sbPc = "node_return"
    /\ sbResults' = AppendTest(sbResults, SegmentResult("nodejs", sbSeg))
    /\ sbPc' = "aggregate"
    /\ UNCHANGED <<sbIn, sbFs, sbSeg, sbGhost, ccVars, agentVars, adVars, ghVars>>

\* all(test["result"]["passed"] for test in results["tests"])
AllPassed(tests) == \A i \in 1..Len(tests) : tests[i].passed

\* results["passed"] = all(...)
SbAggregate ==
    /\ sbPc = "aggregate"
    /\ sbResults' = [sbResults EXCEPT !.passed = AllPassed(sbResults.tests)]
    /\ sbPc' = "finally"
    /\ UNCHANGED <<sbIn, sbFs, sbSeg, sbGhost, ccVars, agentVars, adVars, ghVars>>

\* the positions inside the try block of test_fix_in_sandbox
CheckingPcs == {"py_start", "py_check", "py_return", "node_start", "node_check",
                "node_return", "aggregate"}

\* mutant: no finally clause, an exception leaves the function at once
OnException_NoFinally == "raised"

\* where an exception raised inside the try block goes: the finally clause
OnException == "finally"

\* an exception that "except Exception" does not catch (KeyboardInterrupt,
\* SystemExit) or one raised by the try block itself leaves the checks
SbInterrupt ==
    /\ sbPc \in CheckingPcs
    /\ sbGhost' = [sbGhost EXCEPT !.raised = TRUE]
    /\ sbPc' = OnException
    /\ UNCHANGED <<sbIn, sbFs, sbSeg, sbResults, ccVars, agentVars, adVars, ghVars>>

\* cleanup_sandbox: rmtree of the parent succeeds or raises (caught)
CleanupOutcomes == {"removed", "rmtree_fails"}

\* mutant: rmtree is given the repository path
CleanupTarget_RepoPath == "source"

\* parent = os.path.dirname(sandbox_path); shutil.rmtree(parent): the
\* directory mkdtemp made in this invocation
CleanupTarget == "scratch"

\* the directories cleanup_sandbox leaves behind; nothing is removed when
\* the copy does not exist, and a failed rmtree may have removed a part
CleanupFs(fs, o, partial) ==
    IF ~fs.copy THEN fs
    ELSE IF CleanupTarget = "source"
    THEN [fs EXCEPT !.source = IF o = "removed" THEN "deleted" ELSE "modified"]
    ELSE IF o = "removed" THEN [fs EXCEPT !.scratch = FALSE, !.copy = FALSE]
    ELSE [fs EXCEPT !.copy = partial]

\* finally: cleanup_sandbox(sandbox_path); then return results (or re-raise)
SbCleanup ==
    /\ sbPc = "finally"
    /\ \E o \in CleanupOutcomes, partial \in BOOLEAN :
          sbFs' = CleanupFs(sbFs, o, partial)
    /\ sbGhost' = [sbGhost EXCEPT !.cleanups = @ + 1]
    /\ sbPc' = IF sbGhost.raised THEN "raised" ELSE "returned"
    /\ UNCHANGED <<sbIn, sbSeg, sbResults, ccVars, agentVars, adVars, ghVars>>

SandboxNext ==
    \/ SbSetup
    \/ SbPyStart
    \/ SbPyCheck
    \/ SbPyReturn
    \/ SbNodeStart
    \/ SbNodeCheck
    \/ SbNodeReturn
    \/ SbAggregate
    \/ SbInterrupt
    \/ SbCleanup

SandboxSpec == SbInit /\ [][SandboxNext]_vars

-----------------------------------------------------------------------------
(* Overlapping invocations of test_fix_in_sandbox: the scratch directories *)
(* of two callers in one temp directory                                    *)

CcInit ==
    /\ NewState(DefaultMaxAttempts)
    /\ NoHistory
    /\ pc = "sandboxes"
    /\ sbPc = "idle"
    /\ sbIn = [tech_stack |-> "python", failure_type |-> "test_failure",
               repo |-> [backend |-> "absent", frontend |-> FALSE]]
    /\ sbFs = CleanFs
    /\ sbSeg = NoSegment
    /\ sbResults = NoResults
    /\ sbGhost = NoGhost
    /\ CcIdle
    /\ AdIdle
    /\ GhIdle

\* mutant: the directory is named after the job id prefix alone
Mkdtemp_FixedName(prefix, existing) == {<<prefix, "a">>}

\* tempfile.mkdtemp(prefix=f"patchpilot_sandbox_{job_id[:8]}_"): the names it
\* may create, each new in the temp directory; none left means it raises
Mkdtemp(prefix, existing) ==
    {<<prefix, s>> : s \in Suffixes} \ existing

\* the invocations between a successful setup and the end of cleanup
Running(i) == sbRuns[i].pc \in {"checks", "cleanup"}

\* setup_sandbox_environment of invocation i: mkdtemp raises, or the
\* directory is made and copytree raises (None is returned, the directory
\* stays), or both succeed
CcSetup(i) ==
    /\ sbRuns[i].pc = "idle" /\ sbRuns[i].runs < MaxRuns
    /\ \E prefix \in JobPrefixes, o \in SetupOutcomes :
          LET names == Mkdtemp(prefix, tmpDirs) IN
          IF o = "mkdtemp_fails" \/ names = {}
          THEN /\ sbRuns' = [sbRuns EXCEPT ![i].prefix = prefix,
                                           ![i].runs = @ + 1]
               /\ UNCHANGED tmpDirs
          ELSE \E d \in names :
                  /\ tmpDirs' = tmpDirs \cup {d}
                  /\ sbRuns' = [sbRuns EXCEPT
                        ![i] = IF IsSome(SetupReturns(o))
                               THEN [pc |-> "checks", prefix |-> prefix,
                                     dir |-> Some(d), runs |-> @.runs]
                               ELSE [pc |-> "idle", prefix |-> prefix,
                                     dir |-> None, runs |-> @.runs + 1]]
    /\ UNCHANGED <<sbRunVars, agentVars, adVars, ghVars>>

\* the try block of invocation i: its commands run inside its copy
CcChecks(i) ==
    /\ sbRuns[i].pc = "checks"
    /\ sbRuns' = [sbRuns EXCEPT ![i].pc = "cleanup"]
    /\ UNCHANGED <<tmpDirs, sbRunVars, agentVars, adVars, ghVars>>

\* finally: cleanup_sandbox(sandbox_path) of invocation i removes the parent
\* of its own sandbox_path (or fails to), and the function returns
CcCleanup(i) ==
    /\ sbRuns[i].pc = "cleanup"
    /\ \E o \in CleanupOutcomes :
          tmpDirs' = IF o = "removed" THEN tmpDirs \ {sbRuns[i].dir.val}
                     ELSE tmpDirs
    /\ sbRuns' = [sbRuns EXCEPT ![i] = [pc |-> "idle", prefix |-> @.prefix,
                                       dir |-> None, runs |-> @.runs + 1]]
    /\ UNCHANGED <<sbRunVars, agentVars, adVars, ghVars>>

CcNext ==
    \E i \in Invocations :
       \/ CcSetup(i)
       \/ CcChecks(i)
       \/ CcCleanup(i)

ConcurrentSpec == CcInit /\ [][CcNext]_vars

-----------------------------------------------------------------------------
(* The response adapter run twice on one SentinelState: the service gives  *)
(* the same JSON object in two wrappings to two successive calls of        *)
(* diagnose (or of generate_fix, on a state that has a diagnosis)          *)

AdInit ==
    /\ adPc = "first"
    /\ adOut = <<>>
    /\ \E kind \in {"diagnosis", "fix"} :
          /\ adIn \in [kind : {kind}, obj : AdObjects(kind),
                       wraps : Wraps \X Wraps]
          /\ NewState(DefaultMaxAttempts)
          /\ NoHistory
    /\ pc = "adapter"
    /\ SbIdle
    /\ GhIdle

\* the result of the parse a call has just made: the object it stored, or
\* None when it appended an error
ParseResult(kind) ==
    IF errors' # errors THEN None
    ELSE IF kind = "diagnosis" THEN diagnosis' ELSE fix_result'

\* before the first generate_fix the caller has a diagnosis in the state
AdPrepare ==
    /\ adPc = "first" /\ adIn.kind = "fix" /\ ~IsSome(diagnosis)
    /\ Diagnose(Returns(Bare(DiagnosisJson("dep_conflict", 92))))
    /\ lastOp' = "diagnose"
    /\ UNCHANGED <<pc, route, valLog, retries, nOps>>
    /\ UNCHANGED <<sbVars, adVars, ghVars>>

\* the i-th call: diagnose or generate_fix on the i-th wrapping of the object
AdParse(i) ==
    /\ IF adIn.kind = "diagnosis"
       THEN /\ Diagnose(Returns(Wrap(adIn.wraps[i], adIn.obj)))
            /\ lastOp' = "diagnose"
       ELSE /\ IsSome(diagnosis)
            /\ GenerateFix(Returns(Wrap(adIn.wraps[i], adIn.obj)))
            /\ lastOp' = "generate_fix"
    /\ adOut' = Append(adOut, ParseResult(adIn.kind))
    /\ UNCHANGED <<pc, route, valLog, retries, nOps, adIn>>
    /\ UNCHANGED <<sbVars, ghVars>>

AdParseFirst ==
    /\ adPc = "first"
    /\ AdParse(1)
    /\ adPc' = "second"

AdParseSecond ==
    /\ adPc = "second"
    /\ AdParse(2)
    /\ adPc' = "done"

AdapterNext ==
    \/ AdPrepare
    \/ AdParseFirst
    \/ AdParseSecond

AdapterSpec == AdInit /\ [][AdapterNext]_vars

-----------------------------------------------------------------------------
(* A failure request handled by github_webhook or simulate_failure, with   *)
(* the call of create_github_pr, one step per call of the GitHub API; the  *)
(* sandbox run inside it is made of the test_fix_in_sandbox actions.  An   *)
(* exception inside create_github_pr is caught by its own "except          *)
(* Exception" (200-202), so the handlers' except clauses are never entered *)

DeliveryInit ==
    /\ NewState(DefaultMaxAttempts)
    /\ NoHistory
    /\ pc = "delivery"
    /\ AdIdle
    /\ sbPc = "idle"
    /\ sbIn \in [tech_stack : {"fullstack"}, failure_type : DeliveryFailureTypes,
                 repo : Repos]
    /\ sbFs = CleanFs
    /\ sbSeg = NoSegment
    /\ sbResults = NoResults
    /\ sbGhost = NoGhost
    /\ CcIdle
    /\ ghPc = "handler"
    /\ ghIn \in [handler : GhHandlers, own_repo : BOOLEAN, token : BOOLEAN]
    /\ ghRemote = NoRemote
    /\ pr_info = None
    /\ job_store = {}
    /\ JsIdle

\* return create_mock_pr(...) to the handler
ReturnMock ==
    /\ pr_info' = MockPr
    /\ ghPc' = "store"

\* pr_info = None; if repo == f"{GITHUB_OWNER}/{GITHUB_REPO}": create_github_pr
GhHandler ==
    /\ ghPc = "handler"
    /\ ghPc' = IF ghIn.own_repo THEN "client" ELSE "store"
    /\ UNCHANGED <<ghIn, ghRemote, pr_info, job_store, jsVars>>
    /\ UNCHANGED <<agentVars, sbVars, adVars>>

\* gh = get_github_client(); if not gh: return create_mock_pr(...)
GhClient ==
    /\ ghPc = "client"
    /\ \E o \in {"ok", "error"} :
          IF ghIn.token /\ o = "ok"
          THEN ghPc' = "get_repo" /\ UNCHANGED pr_info
          ELSE ReturnMock
    /\ UNCHANGED <<ghIn, ghRemote, job_store, jsVars>>
    /\ UNCHANGED <<agentVars, sbVars, adVars>>

\* repo = gh.get_user(repo_owner).get_repo(repo_name); then the call of
\* test_fix_in_sandbox(..., tech_stack="fullstack") starts
GhGetRepo ==
    /\ ghPc = "get_repo"
    /\ \E o \in GhApiOutcomes \ {"exists"} :
          IF o = "ok"
          THEN /\ ghPc' = "sandbox"
               /\ sbPc' = "setup"
               /\ UNCHANGED pr_info
          ELSE /\ ReturnMock
               /\ UNCHANGED sbPc
    /\ UNCHANGED <<ghIn, ghRemote, job_store, jsVars>>
    /\ UNCHANGED <<sbIn, sbFs, sbSeg, sbResults, sbGhost, ccVars>>
    /\ UNCHANGED <<agentVars, adVars>>

\* test_fix_in_sandbox raised: the outer "except Exception" returns the mock
GhSandboxRaised ==
    /\ ghPc = "sandbox" /\ sbPc = "raised"
    /\ ReturnMock
    /\ UNCHANGED <<ghIn, ghRemote, job_store, jsVars>>
    /\ UNCHANGED <<agentVars, sbVars, adVars>>

\* sandbox_result = test_fix_in_sandbox(...) has returned; the report is
\* built; base_ref = repo.get_branch(base_branch)
GhGetBranch ==
    /\ ghPc = "sandbox" /\ sbPc = "returned"
    /\ \E o \in GhApiOutcomes \ {"exists"} :
          IF o = "ok"
          THEN ghPc' = "create_ref" /\ UNCHANGED pr_info
          ELSE ReturnMock
    /\ UNCHANGED <<ghIn, ghRemote, job_store, jsVars>>
    /\ UNCHANGED <<agentVars, sbVars, adVars>>

\* repo.create_git_ref(...): "Reference already exists" is tolerated
GhCreateRef ==
    /\ ghPc = "create_ref"
    /\ \E o \in GhApiOutcomes :
          CASE o = "ok" ->
                 /\ ghRemote' = [ghRemote EXCEPT !.branch = TRUE]
                 /\ ghPc' = "create_file"
                 /\ UNCHANGED pr_info
            [] o = "exists" ->
                 /\ ghPc' = "create_file"
                 /\ UNCHANGED <<ghRemote, pr_info>>
            [] OTHER ->
                 /\ ReturnMock
                 /\ UNCHANGED ghRemote
    /\ UNCHANGED <<ghIn, job_store, jsVars>>
    /\ UNCHANGED <<agentVars, sbVars, adVars>>

\* repo.create_file(...): every exception is logged and ignored
GhCreateFile ==
    /\ ghPc = "create_file"
    /\ \E o \in GhApiOutcomes \ {"exists"} :
          ghRemote' = [ghRemote EXCEPT !.file = (o = "ok")]
    /\ ghPc' = "create_pull"
    /\ UNCHANGED <<ghIn, pr_info, job_store, jsVars>>
    /\ UNCHANGED <<agentVars, sbVars, adVars>>

\* pr = repo.create_pull(...); on "pull request already exists" the open
\* pull request of the branch is looked up (found or not)
GhCreatePull ==
    /\ ghPc = "create_pull"
    /\ \E o \in GhApiOutcomes, found \in BOOLEAN :
          CASE o = "ok" ->
                 /\ ghRemote' = [ghRemote EXCEPT !.pr = TRUE]
                 /\ pr_info' = Some([status |-> "created"])
            [] o = "exists" /\ found ->
                 /\ pr_info' = Some([status |-> "existing"])
                 /\ UNCHANGED ghRemote
            [] OTHER ->
                 /\ pr_info' = MockPr
                 /\ UNCHANGED ghRemote
    /\ ghPc' = "store"
    /\ UNCHANGED <<ghIn, job_store, jsVars>>
    /\ UNCHANGED <<agentVars, sbVars, adVars>>

\* mutant: a simulated pull request marks the job as failed
StoredStatus_FailedOnMock(info) ==
    IF info = MockPr THEN "failed" ELSE "processing"

\* _job_store[job_id] = {..., "status": "processing", ...}
StoredStatus(info) == "processing"

\* job_id = str(uuid.uuid4())[:8]: the first eight hex digits of a random
\* uuid; nothing compares them with the keys of _job_store
DrawJobId(store) == JobIds

\* _job_store[job_id] = {...}: an entry under the same key is replaced
Put(store, job) == {j \in store : j.id # job.id} \cup {job}

\* _job_store[job_id] = {"id": job_id, "status": "processing", "root_cause":
\* root_cause, "pr_info": pr_info, "provider": ...};
\* _job_timestamps[job_id] = datetime.now()
\* (suffixes counts the AUTO-FIXED suffixes of root_cause; the webhooks of
\* gitlab, jenkins and circleci store no pr_info key, modelled as None)
StoreJob(id, provider, info) ==
    /\ job_store' = Put(job_store, [id |-> id,
                                    provider |-> provider,
                                    status |-> StoredStatus(info),
                                    suffixes |-> 0,
                                    pr_info |-> info])
    /\ job_timestamps' = [i \in DOMAIN job_timestamps \cup {id} |->
                            IF i = id THEN now ELSE job_timestamps[i]]

\* the handler stores the job and returns its response
GhStore ==
    /\ ghPc = "store"
    /\ \E id \in DrawJobId(job_store) :
          StoreJob(id, IF ghIn.handler = "github_webhook" THEN "github"
                       ELSE "test", pr_info)
    /\ ghPc' = "returned"
    /\ UNCHANGED <<ghIn, ghRemote, pr_info, now>>
    /\ UNCHANGED <<agentVars, sbVars, adVars>>

DeliveryNext ==
    \/ GhHandler
    \/ GhClient
    \/ GhGetRepo
    \/ SbSetup
    \/ SbPyStart
    \/ SbPyCheck
    \/ SbPyReturn
    \/ SbNodeStart
    \/ SbNodeCheck
    \/ SbNodeReturn
    \/ SbAggregate
    \/ SbInterrupt
    \/ SbCleanup
    \/ GhSandboxRaised
    \/ GhGetBranch
    \/ GhCreateRef
    \/ GhCreateFile
    \/ GhCreatePull
    \/ GhStore

DeliverySpec == DeliveryInit /\ [][DeliveryNext]_vars

-----------------------------------------------------------------------------
(* The job store under requests in any order: each handler runs without *)
(* interruption after its await request.json()                          *)

JsInit ==
    /\ NewState(DefaultMaxAttempts)
    /\ NoHistory
    /\ pc = "requests"
    /\ SbIdle
    /\ AdIdle
    /\ GhIdle

\* what create_github_pr returns to the handler
PrInfos == {Some([status |-> "created"]), Some([status |-> "existing"]), MockPr}

\* github_webhook: a failure event stores a job, any other event does not
GithubWebhook ==
    /\ \E failure \in BOOLEAN, own_repo \in BOOLEAN :
          IF failure
          THEN \E id \in DrawJobId(job_store),
                  info \in IF own_repo THEN PrInfos ELSE {None} :
                  StoreJob(id, "github", info)
          ELSE UNCHANGED <<job_store, job_timestamps>>
    /\ UNCHANGED <<ghPc, ghIn, ghRemote, pr_info, now>>
    /\ UNCHANGED <<agentVars, sbVars, adVars>>

\* gitlab_webhook, jenkins_webhook, circleci_webhook
CiWebhook(provider) ==
    /\ \E failure \in BOOLEAN :
          IF failure
          THEN \E id \in DrawJobId(job_store) : StoreJob(id, provider, None)
          ELSE UNCHANGED <<job_store, job_timestamps>>
    /\ UNCHANGED <<ghPc, ghIn, ghRemote, pr_info, now>>
    /\ UNCHANGED <<agentVars, sbVars, adVars>>

\* simulate_failure: always stores a job
SimulateFailure ==
    /\ \E own_repo \in BOOLEAN :
          \E id \in DrawJobId(job_store),
             info \in IF own_repo THEN PrInfos ELSE {None} :
             StoreJob(id, "test", info)
    /\ UNCHANGED <<ghPc, ghIn, ghRemote, pr_info, now>>
    /\ UNCHANGED <<agentVars, sbVars, adVars>>

\* elapsed > 15 and _job_store[job_id]["status"] == "processing"
AutoResolves(job) ==
    /\ job.id \in DOMAIN job_timestamps
    /\ now - job_timestamps[job.id] > AutoResolveSeconds
    /\ job.status = "processing"

\* list_jobs: every job with a timestamp older than 15 s that is still
\* processing becomes resolved and its root cause gets the suffix
ListJobs ==
    /\ job_store' = {IF AutoResolves(j)
                     THEN [j EXCEPT !.status = "resolved",
                                    !.suffixes = @ + 1]
                     ELSE j : j \in job_store}
    /\ UNCHANGED <<job_timestamps, now>>
    /\ UNCHANGED <<ghPc, ghIn, ghRemote, pr_info>>
    /\ UNCHANGED <<agentVars, sbVars, adVars>>

\* time passes between two requests
Tick ==
    /\ \E d \in ClockSteps :
          /\ now + d <= MaxNow
          /\ now' = now + d
    /\ UNCHANGED <<ghPc, ghIn, ghRemote, pr_info, job_store, job_timestamps>>
    /\ UNCHANGED <<agentVars, sbVars, adVars>>

JobStoreNext ==
    \/ GithubWebhook
    \/ \E provider \in {"gitlab", "jenkins", "circleci"} : CiWebhook(provider)
    \/ SimulateFailure
    \/ ListJobs
    \/ Tick

JobStoreSpec == JsInit /\ [][JobStoreNext]_vars

-----------------------------------------------------------------------------
(* Properties *)

\* one call of route_after_validate by the AgentSpec caller
RouteAfterValidateStep ==
    nOps' = nOps + 1 /\ lastOp' = "route_after_validate"

FixCalls == {c \in calls : c.svc = "generate_fix"}
DiagnoseCalls == {c \in calls : c.svc = "diagnose"}

\* the entries of an error log that come from neither diagnose nor generate_fix
IsValidationFailureEntry(e) ==
    e.src \notin {DiagnoseError.src, NoDiagnosisError.src, GenerateError(0).src}
ValidationFailureEntries(log) ==
    {i \in 1..Len(log) : IsValidationFailureEntry(log[i])}
DiagnoseErrorEntries(log) ==
    {i \in 1..Len(log) : log[i].src = DiagnoseError.src}

\* C1: route_after_diagnose returns generate_fix exactly when a diagnosis
\* exists and its confidence is strictly greater than 0.3; a confidence of
\* exactly 0.3, a lower one, or no diagnosis gives escalate.
C1_RouteAfterDiagnose ==
    lastOp = "route_after_diagnose" =>
        /\ route \in {"generate_fix", "escalate"}
        /\ route = "generate_fix" <=>
               (IsSome(diagnosis) /\ diagnosis.val.confidence > 30)
        /\ (IsSome(diagnosis) /\ diagnosis.val.confidence = 30)
               => route = "escalate"

\* C1 witness: the route was taken on a diagnosis of confidence exactly 0.3
C1_Witness ==
    /\ lastOp = "route_after_diagnose"
    /\ IsSome(diagnosis) /\ diagnosis.val.confidence = 30
    /\ route = "escalate"

\* C2: for 0 <= attempt < max_attempts - 1, one call of route_after_validate
\* on a validation that did not pass adds exactly one to attempt and returns
\* generate_fix.
C2_RetryIncrementsOnce ==
    [][(/\ RouteAfterValidateStep
        /\ ~(IsSome(validation_result) /\ validation_result.val.passed)
        /\ 0 <= attempt /\ attempt < max_attempts - 1)
       => (attempt' = attempt + 1 /\ route' = "generate_fix")]_vars

\* C2 witness: a stored failed validation was routed to a retry twice
C2_Witness ==
    /\ lastOp = "route_after_validate" /\ route = "generate_fix"
    /\ IsSome(validation_result) /\ ~validation_result.val.passed
    /\ attempt = 2

\* C3: route_after_validate returns open_pr whenever the stored validation
\* passed, at every attempt index, and leaves attempt unchanged, whatever
\* the diagnosis or the fix.
C3_PassedOpensPr ==
    [][(/\ RouteAfterValidateStep
        /\ IsSome(validation_result) /\ validation_result.val.passed)
       => (route' = "open_pr" /\ attempt' = attempt)]_vars

\* C3 witness: open_pr on the last attempt index, after a retry, with a
\* diagnosis of confidence 0.3
C3_Witness ==
    /\ lastOp = "route_after_validate" /\ route = "open_pr"
    /\ attempt >= 1 /\ attempt = max_attempts - 1
    /\ IsSome(diagnosis) /\ diagnosis.val.confidence = 30

\* C4 as stated: at attempt = max_attempts - 1 route_after_validate returns
\* escalate regardless of the validation outcome.
C4_EscalateRegardless ==
    [][(RouteAfterValidateStep /\ attempt = max_attempts - 1)
       => route' = "escalate"]_vars

\* C4 amended: at attempt = max_attempts - 1 route_after_validate never
\* retries: it returns open_pr if the validation passed and escalate
\* otherwise, and leaves attempt unchanged.
C4_LastAttemptRoutes ==
    [][(RouteAfterValidateStep /\ attempt = max_attempts - 1)
       => /\ attempt' = attempt
          /\ route' = IF IsSome(validation_result) /\ validation_result.val.passed
                      THEN "open_pr" ELSE "escalate"]_vars

\* C4 witness: a failed validation on the last attempt index, after a
\* retry, was routed to escalate
C4_Witness ==
    /\ lastOp = "route_after_validate" /\ route = "escalate"
    /\ attempt >= 1 /\ attempt = max_attempts - 1
    /\ IsSome(validation_result) /\ ~validation_result.val.passed

\* C5: with max_attempts = N >= 1, route_after_validate grants at most N - 1
\* retries, so a caller that repeats generate_fix and validation while the
\* route is generate_fix makes at most N cycles, on attempt indices 0..N-1;
\* a validation that did not pass and gets no retry is routed to escalate.
C5_BoundedCycles ==
    max_attempts >= 1 =>
        /\ retries <= max_attempts - 1
        /\ attempt = retries
        /\ \A c \in FixCalls : 0 <= c.attempt /\ c.attempt <= max_attempts - 1
        /\ (/\ lastOp = "route_after_validate"
            /\ ~(IsSome(validation_result) /\ validation_result.val.passed))
           => /\ route \in {"generate_fix", "escalate"}
              /\ route = "escalate" => attempt = max_attempts - 1

\* C5 witness: N = 3, both retries were granted, a fix was requested on
\* attempt index 2, and the next failed validation was escalated
C5_Witness ==
    /\ max_attempts = 3 /\ retries = 2
    /\ \E c \in FixCalls : c.attempt = 2
    /\ lastOp = "route_after_validate" /\ route = "escalate"

\* C6: at every entry to generate_fix, attempt < max_attempts
\* (max_attempts is at least 1 in every state run_healing_job constructs).
C6_AttemptBelowMax ==
    pc = "generate" => (max_attempts >= 1 /\ attempt < max_attempts)

\* C7: the fix-generation service is never called on a state without a
\* diagnosis: every generate_fix request was sent with a Diagnosis stored by
\* an earlier diagnose call.
C7_FixNeedsDiagnosis ==
    \A c \in FixCalls :
        /\ c.hadDiagnosis
        /\ \E d \in DiagnoseCalls : d.stored

\* C7 witness: generate_fix was invoked without a diagnosis (and recorded
\* the error), and a request was sent once a diagnosis was stored
C7_Witness ==
    /\ FixCalls # {}
    /\ \E i \in 1..Len(errors) : errors[i] = NoDiagnosisError

\* C8: when diagnose leaves no diagnosis or one of confidence <= 0.3,
\* run_healing_job goes straight to escalate: generate_fix is not invoked,
\* no request reaches the fix-generation service, no fix, validation result
\* or PR URL is stored, and the job returns with status failed.
C8_LowConfidenceEscalates ==
    (/\ pc # "diagnose"
     /\ (~IsSome(diagnosis) \/ diagnosis.val.confidence <= 30))
    => /\ pc \in {"route", "escalate", "returned"}
       /\ FixCalls = {}
       /\ \A e \in statusEdges : e[2] # "generating"
       /\ fix_result = None /\ validation_result = None /\ pr_url = None
       /\ pc = "returned" => status = "failed"

\* C8 witness: a job whose diagnosis has confidence 0.2 has returned
C8_Witness ==
    /\ pc = "returned"
    /\ IsSome(diagnosis) /\ diagnosis.val.confidence = 20
    /\ status = "failed"

\* C9: with a diagnosis {dep_conflict, 0.92}, a one-file fix and the passing
\* validation, the job returns resolved (status done, a PR URL) with
\* attempt = 0.
C9_ScenarioResolved ==
    (/\ pc = "returned"
     /\ diagnosis = Some([failure_type |-> "dep_conflict", confidence |-> 92])
     /\ IsSome(fix_result) /\ fix_result.val.patches = 1)
    => /\ status = "done"
       /\ attempt = 0
       /\ IsSome(validation_result) /\ validation_result.val.passed
       /\ IsSome(pr_url)

\* C9 witness: the scenario's job has returned
C9_Witness ==
    /\ pc = "returned"
    /\ diagnosis = Some([failure_type |-> "dep_conflict", confidence |-> 92])
    /\ IsSome(fix_result) /\ fix_result.val.patches = 1
    /\ status = "done"

\* C10: with max_attempts = 2 and a validation that fails on attempt 0 and
\* on attempt 1, the job ends escalated, and its error log holds exactly two
\* validation-failure entries and no diagnosis error.
C10_ScenarioEscalated ==
    (/\ max_attempts = 2
     /\ valLog = {[attempt |-> 0, passed |-> FALSE],
                  [attempt |-> 1, passed |-> FALSE]}
     /\ lastOp = "route_after_validate" /\ route = "escalate"
     /\ DiagnoseErrorEntries(errors) = {})
    => Cardinality(ValidationFailureEntries(errors)) = 2

\* the status graph of the claim C15 (Resolved is PR_OPENING in AgentStatus)
StatusGraph ==
    {<<"ingesting", "diagnosing">>, <<"diagnosing", "generating">>,
     <<"diagnosing", "escalating">>, <<"generating", "validating">>,
     <<"validating", "generating">>, <<"validating", "pr_opening">>,
     <<"validating", "escalating">>, <<"pr_opening", "done">>,
     <<"escalating", "failed">>}

Visited(st) == \E e \in statusEdges : e[2] = st

\* C11: every ValidationResult stored in a job's state is the outcome of a
\* run of the validation harness (test_fix_in_sandbox) for that attempt; no
\* attempt gets a fixed, always-passing result.
C11_ValidationFromHarness ==
    IsSome(validation_result) => sbPc # "idle"

\* C12: a job in which no fix was produced never returns resolved: its
\* status is not done and no PR URL is set.
C12_NoFixNoResolve ==
    (pc = "returned" /\ ~IsSome(fix_result))
    => (status # "done" /\ ~IsSome(pr_url))

\* C13: when diagnose stores no diagnosis (the call failed, or the response
\* is not valid JSON or violates the schema), it appended exactly one
\* diagnose error, left the diagnosis unset and returned without raising.
C13_DiagnoseFailureRecorded ==
    [][(pc = "diagnose" /\ pc' # "diagnose" /\ ~IsSome(diagnosis'))
       => /\ errors' = Append(errors, DiagnoseError)
          /\ diagnosis' = None
          /\ pc' = "route"]_vars

\* C13 witness: diagnose has returned with one error and no diagnosis
C13_Witness ==
    /\ pc = "route" /\ lastOp = "diagnose"
    /\ errors = <<DiagnoseError>>
    /\ diagnosis = None

\* C14: for every combination of outcomes of the external calls,
\* run_healing_job returns, without raising, a state whose status is done or
\* failed.
C14_JobTerminates ==
    <>(pc = "returned" /\ status \in {"done", "failed"})

\* C14 witness: a job whose fix-generation call failed has returned
C14_Witness ==
    /\ pc = "returned"
    /\ \E i \in 1..Len(errors) : errors[i] = GenerateError(0)
    /\ status \in {"done", "failed"}

\* C15: every status change follows the graph Ingesting -> Diagnosing ->
\* Generating -> Validating -> {Resolved, Escalating} -> {Done, Failed}: a
\* job is done only after validating and resolved, and failed only after
\* escalating.
C15_StatusGraph ==
    /\ statusEdges \subseteq StatusGraph
    /\ status = "done" => (Visited("validating") /\ Visited("pr_opening"))
    /\ status = "failed" => Visited("escalating")

SbEnded == sbPc \in {"returned", "raised"}

\* C17: after test_fix_in_sandbox returns, on every exit path, no scratch
\* directory or repository copy created by the invocation remains.
C17_NothingRemains ==
    SbEnded => (~sbFs.scratch /\ ~sbFs.copy)

\* C18: cleanup_sandbox is invoked exactly once per invocation of the
\* check-running phase of test_fix_in_sandbox (checks pass, a check fails, a
\* check times out, an exception is raised while the checks execute), and
\* not before that phase has ended.
C18_CleanupOnce ==
    /\ sbGhost.cleanups <= 1
    /\ (SbEnded /\ sbGhost.checking) => sbGhost.cleanups = 1
    /\ ~sbGhost.checking => sbGhost.cleanups = 0
    /\ sbPc \in CheckingPcs \cup {"finally"} => sbGhost.cleanups = 0

\* C18 witness: an exception left the checks after a subprocess had run, and
\* the function ended with one cleanup
C18_Witness ==
    /\ sbPc = "raised"
    /\ sbGhost.ran >= 1
    /\ sbGhost.cleanups = 1

\* C19: when the isolated copy cannot be created, setup returns the failure
\* signal without raising and test_fix_in_sandbox returns tested = false,
\* passed = false with an error, having run no check and recorded no
\* per-check result.
C19_SetupFailure ==
    sbGhost.setup \in {"mkdtemp_fails", "copytree_fails"}
    => /\ sbPc = "returned"
       /\ ~sbResults.tested /\ ~sbResults.passed
       /\ sbResults.error # ""
       /\ sbResults.tests = <<>>
       /\ sbGhost.ran = 0
       /\ ~sbGhost.raised

\* C19 witness: the copy failed after the scratch directory was made
C19_Witness ==
    /\ sbGhost.setup = "copytree_fails"
    /\ sbPc = "returned"
    /\ sbResults.built /\ ~sbResults.tested

\* C20: the verdict of test_fix_in_sandbox is the AND over every command
\* that was run: passed is true exactly when the install step and each check
\* exited with status 0 within its timeout.
C20_VerdictIsAnd ==
    (sbPc = "returned" /\ sbResults.tested)
    => (sbResults.passed <=> sbGhost.allZero)

\* the number of subprocesses test_python_fix has run when it returned t
PyRuns(t) ==
    IF t.errors = "exception" THEN 1
    ELSE Len(PyCommands(sbIn.failure_type)) +
         (IF sbIn.repo.backend = "requirements" THEN 1 ELSE 0)

\* the entries of all_output that stand for a check that was run
CheckMarkers == {"ok", "failed", "timeout", "error"}
Markers(output) == SelectSeq(output, LAMBDA x : x \in CheckMarkers)

\* C21: with the fullstack selector and a copy that holds only a backend
\* project, the Node.js segment is a pass that ran no check (and no install),
\* and the overall verdict is the verdict of the Python segment.
C21_FrontendAbsentTrivialPass ==
    (/\ sbPc = "returned" /\ sbResults.tested
     /\ sbIn.tech_stack = "fullstack"
     /\ sbIn.repo.backend # "absent" /\ ~sbIn.repo.frontend)
    => /\ Len(sbResults.tests) = 2
       /\ sbResults.tests[1].framework = "python"
       /\ sbResults.tests[2].framework = "nodejs"
       /\ sbResults.tests[2].passed
       /\ Markers(sbResults.tests[2].output) = <<>>
       /\ sbGhost.ran = PyRuns(sbResults.tests[1])
       /\ sbResults.passed = sbResults.tests[1].passed

\* C21 witness: such a run returned with a passing backend segment
C21_Witness ==
    /\ sbPc = "returned" /\ sbResults.tested
    /\ sbIn.tech_stack = "fullstack"
    /\ sbIn.repo.backend = "requirements" /\ ~sbIn.repo.frontend
    /\ Len(sbResults.tests) = 2
    /\ sbResults.passed

\* whether the project of a stack segment is in the copy
ProjectPresent(fw) ==
    IF fw = "python" THEN sbIn.repo.backend # "absent" ELSE sbIn.repo.frontend

\* C22: every requested stack segment whose project is absent from the copy
\* (backend/Python as well as frontend/Node.js) has a passing result.
C22_AbsentSegmentPasses ==
    (sbPc = "returned" /\ sbResults.tested)
    => \A i \in 1..Len(sbResults.tests) :
          ~ProjectPresent(sbResults.tests[i].framework)
          => sbResults.tests[i].passed

\* the checks of a segment that ran its loop to the end
SegmentCommands(fw) ==
    IF fw = "python" THEN PyCommands(sbIn.failure_type) ELSE NodeCommands

\* a segment result produced by the loop (not the early returns)
FromLoop(t) == t.errors # "exception" /\ t.output # <<"skipped">>

HasTimeout(output) == \E i \in 1..Len(output) : output[i] = "timeout"

\* C23: a check that exceeds its timeout is recorded as that check's failure
\* with a timeout marker: the segment verdict is failed, the remaining
\* checks of the segment still run, and the result stays tested = true with
\* no harness-level error.
C23_TimeoutIsCheckFailure ==
    /\ (sbPc \in {"py_check", "py_return", "node_check", "node_return"}
         /\ HasTimeout(sbSeg.output)) => ~sbSeg.all_passed
    /\ (sbPc = "returned" /\ sbGhost.checking)
       => /\ sbResults.tested /\ sbResults.error = ""
          /\ \A i \in 1..Len(sbResults.tests) :
                LET t == sbResults.tests[i] IN
                FromLoop(t)
                => /\ Len(Markers(t.output)) = Len(SegmentCommands(t.framework))
                   /\ HasTimeout(t.output)
                      => (~t.passed /\ ~sbResults.passed
                          /\ t.errors = "Some tests failed")

\* C23 witness: the first check of a three-check segment timed out, the
\* other two ran and exited 0
C23_Witness ==
    /\ sbPc = "returned" /\ sbResults.tested
    /\ \E i \in 1..Len(sbResults.tests) :
          /\ Markers(sbResults.tests[i].output) = <<"timeout", "ok", "ok">>
          /\ ~sbResults.tests[i].passed

\* C24: test_fix_in_sandbox never modifies or deletes anything under the
\* source repository path: every command runs inside the copy and cleanup
\* removes only the scratch directory of the same invocation.
C24_SourceIntact ==
    sbFs.source = "intact"

\* C24 witness: install and checks ran in the copy, cleanup removed the
\* scratch directory, and the function returned
C24_Witness ==
    /\ sbPc = "returned"
    /\ sbIn.repo.backend = "requirements" /\ sbIn.repo.frontend
    /\ sbIn.tech_stack = "fullstack"
    /\ sbGhost.ran >= 4 /\ sbGhost.cleanups = 1
    /\ ~sbFs.scratch /\ ~sbFs.copy
    /\ sbFs.source = "intact"

\* C25: in every reachable state the confidence of the stored Diagnosis and
\* the confidence of the stored FixResult lie in [0, 1]; a response with a
\* confidence outside the range is never stored.
C25_ConfidencesInRange ==
    /\ IsSome(diagnosis)
       => (ConfidenceMin <= diagnosis.val.confidence
           /\ diagnosis.val.confidence <= ConfidenceMax)
    /\ IsSome(fix_result)
       => (ConfidenceMin <= fix_result.val.confidence
           /\ fix_result.val.confidence <= ConfidenceMax)

\* one call of generate_fix by the AgentSpec caller
GenerateFixStep == lastOp' = "generate_fix" /\ nOps' = nOps + 1

\* C30: called on a state with no diagnosis, generate_fix appends exactly one
\* error entry, sends no request, and leaves every other field of the state
\* unchanged, the status included.
C30_NoDiagnosisFrame ==
    [][(GenerateFixStep /\ ~IsSome(diagnosis))
       => /\ errors' = Append(errors, NoDiagnosisError)
          /\ calls' = calls
          /\ UNCHANGED <<status, attempt, max_attempts, diagnosis, fix_result,
                         validation_result, pr_url>>]_vars

\* C26: a response made of one JSON object in a fenced block, with any
\* language tag or with none, yields the same Diagnosis / FixResult as the
\* bare JSON object; the fence and the tag never cause a parse failure.
C26_FenceIsTransparent ==
    (adPc = "done" /\ adIn.wraps[1] = "bare" /\ adIn.wraps[2] # "bare")
    => adOut[2] = adOut[1]

C28_PrOnlyWhenValidated ==
    (ghRemote.branch \/ ghRemote.file \/ ghRemote.pr)
    => (sbResults.tested /\ sbResults.passed)

\* C29: a failure of PR creation is reported, not escalated: the handler
\* still records the job, the job's status never becomes failed or
\* escalated because of it, and no exception leaves the request handler.
C29_DeliveryFailureNotEscalated ==
    /\ ghPc # "raised"
    /\ \A j \in job_store : j.status \notin {"failed", "escalated"}
    /\ ghPc = "returned"
       => \E j \in job_store : j.pr_info = pr_info /\ j.status = "processing"

\* C29 witness: create_github_pr made the branch, failed to open the pull
\* request and returned the simulated one; the handler stored the job
C29_Witness ==
    /\ ghPc = "returned"
    /\ ghRemote.branch /\ ~ghRemote.pr
    /\ pr_info = MockPr
    /\ \E j \in job_store : j.pr_info = MockPr /\ j.status = "processing"

\* C31: after a generate_fix call that fails (call error, malformed response
\* or schema violation) the state's fix is unset: a FixResult of an earlier
\* attempt is never left in the state as the result of the failed attempt.
C31_FailedFixUnset ==
    [][(GenerateFixStep /\ IsSome(diagnosis) /\ errors' # errors)
       => fix_result' = None]_vars

\* C32: the fix-generation request of attempt a is issued with the variation
\* parameter min(0.15 * a, 0.4): 0 at attempt 0, non-decreasing in a, never
\* above the ceiling 0.4.
C32_TemperatureSent ==
    \A c \in FixCalls :
        /\ c.temperature = Some(Temperature(c.attempt))
        /\ c.attempt = 0 => c.temperature = Some(0)
        /\ \A d \in FixCalls :
              (c.attempt <= d.attempt /\ IsSome(c.temperature)
               /\ IsSome(d.temperature))
              => c.temperature.val <= d.temperature.val

\* C33 as stated: the fix-generation request includes the excerpt of the
\* previous ValidationResult's output on every retry (attempt > 0) and never
\* on attempt 0.
C33_ExcerptOnEveryRetry ==
    \A c \in FixCalls : c.previous <=> c.attempt > 0

\* C33 amended: the request of a generate_fix call includes the excerpt
\* exactly when attempt > 0 and a ValidationResult is stored in the state;
\* it is never included on attempt 0.
C33_ExcerptWhenValidated ==
    [][(GenerateFixStep /\ IsSome(diagnosis))
       => LET expected == attempt > 0 /\ IsSome(validation_result) IN
          /\ \A c \in calls' \ calls : c.previous = expected
          /\ \E c \in calls' : /\ c.svc = "generate_fix"
                                /\ c.attempt = attempt
                                /\ c.previous = expected]_vars

\* C33 witness: a retry whose request carried the excerpt of the failed
\* validation
C33_Witness ==
    /\ lastOp = "generate_fix"
    /\ attempt = 1
    /\ IsSome(validation_result) /\ ~validation_result.val.passed
    /\ \E c \in FixCalls : c.attempt = 1 /\ c.previous

IsPrefix(s, t) == Len(s) <= Len(t) /\ SubSeq(t, 1, Len(s)) = s

\* C34: the error log of a job is append-only and ordered: no operation
\* removes, reorders or rewrites an entry, so the log of every state is a
\* prefix of the log of every later state.
C34_ErrorsAppendOnly ==
    [][IsPrefix(errors, errors')]_vars

\* C34 witness: the log holds entries of two methods in the order in which
\* they failed
C34_Witness ==
    /\ Len(errors) >= 3
    /\ errors[1] = NoDiagnosisError
    /\ errors[2] = DiagnoseError
    /\ errors[3] = NoDiagnosisError

\* C35: every external call carries its own bounded timeout, so that a
\* reasoning service that never responds ends the call as a recoverable
\* failure: every request sent by diagnose or generate_fix has a timeout.
C35_CallsCarryTimeout ==
    \A c \in calls : IsSome(c.timeout)

\* one call of route_after_diagnose by the AgentSpec caller
RouteAfterDiagnoseStep ==
    nOps' = nOps + 1 /\ lastOp' = "route_after_diagnose"

\* C37: route_after_diagnose changes no field of the state;
\* route_after_validate changes no field other than attempt, and changes
\* attempt only on the call that returns generate_fix.
C37_RoutingFrame ==
    [][/\ RouteAfterDiagnoseStep => UNCHANGED stateVars
       /\ RouteAfterValidateStep
          => /\ UNCHANGED <<status, max_attempts, diagnosis, fix_result,
                            validation_result, pr_url, errors>>
             /\ attempt' # attempt
                => (route' = "generate_fix" /\ attempt' = attempt + 1)]_vars

\* C37 witness: route_after_validate has returned generate_fix on a state
\* with a diagnosis, a fix and a failed validation, and counted the attempt
C37_Witness ==
    /\ lastOp = "route_after_validate" /\ route = "generate_fix"
    /\ attempt = 1
    /\ IsSome(diagnosis) /\ IsSome(fix_result)
    /\ IsSome(validation_result) /\ ~validation_result.val.passed

\* C38: for a job with max_attempts >= 1, under any sequence of operations
\* (route_after_validate called repeatedly on one failed validation
\* included), attempt never decreases and 0 <= attempt <= max_attempts - 1.
C38_AttemptBounds ==
    /\ [](max_attempts >= 1
          => (0 <= attempt /\ attempt <= max_attempts - 1))
    /\ [][attempt' >= attempt]_vars

\* C38 witness: route_after_validate was called again on the same failed
\* validation at the last attempt index and escalated
C38_Witness ==
    /\ max_attempts = MaxMaxAttempts
    /\ attempt = max_attempts - 1
    /\ retries = max_attempts - 1
    /\ lastOp = "route_after_validate" /\ route = "escalate"
    /\ IsSome(validation_result) /\ ~validation_result.val.passed

\* C39: test_fix_in_sandbox reports passed = true only if at least one
\* stack segment was executed; a selector the code does not recognise never
\* yields tested = true and passed = true with no segment run.
C39_PassNeedsSegment ==
    (sbPc = "returned" /\ sbResults.tested /\ sbResults.passed)
    => Len(sbResults.tests) >= 1

\* C36: no two invocations of test_fix_in_sandbox share an isolated copy:
\* each (a retry, or an overlapping invocation with the same job id prefix)
\* has its own scratch directory, and the cleanup of one never removes the
\* copy of another that is still running.
C36_NoSharedCopy ==
    \A i \in Invocations :
        Running(i)
        => /\ sbRuns[i].dir.val \in tmpDirs
           /\ \A j \in Invocations \ {i} :
                 Running(j) => sbRuns[j].dir # sbRuns[i].dir

\* C36 witness: a retry of one caller runs while the other caller, with the
\* same job id prefix, is about to clean up
C36_Witness ==
    /\ sbRuns[1].pc = "checks" /\ sbRuns[1].runs = 1
    /\ sbRuns[2].pc = "cleanup"
    /\ sbRuns[1].prefix = sbRuns[2].prefix
    /\ Cardinality(tmpDirs) >= 2

\* the status of the entry under an id changes from processing to resolved
\* or not at all
StatusStep ==
    \A old \in job_store, new \in job_store' :
        old.id = new.id /\ old.status # new.status
        => old.status = "processing" /\ new.status = "resolved"

\* the root cause of a stored job carries the AUTO-FIXED suffix at most once
SuffixAtMostOnce == \A j \in job_store : j.suffixes <= 1

\* every job id with a timestamp has an entry in the job store
TimestampsStored == DOMAIN job_timestamps \subseteq {j.id : j \in job_store}

\* C40: under any interleaving of webhook, simulate-failure and list_jobs
\* requests, a stored job's status changes only from processing to resolved
\* and never back, the AUTO-FIXED suffix is appended to its root cause at
\* most once, and every job id with a timestamp has a job-store entry.
C40_JobStoreMonotone ==
    /\ [][StatusStep]_vars
    /\ [](SuffixAtMostOnce /\ TimestampsStored)

====
